---- MODULE Spec2Model ----
(***************************************************************************)
(* Model of the PDF document extractor (src/main.py): the classifier, the  *)
(* dispatcher, the six layout extractors, the text helpers, the filename   *)
(* synthesizer and the two batch endpoints.                                *)
(*                                                                         *)
(* Texts are TLA+ strings; Python's None is the value None below.  The     *)
(* regular expressions of the source are written as small syntax trees and *)
(* matched by a backtracking matcher with Python's priorities (leftmost    *)
(* start, greedy repetition, alternatives left to right).                  *)
(*                                                                         *)
(* Only({e : x \in {v}}) reads "let x be the value of v in e": v is        *)
(* evaluated once and x is bound to its value.                             *)
(***************************************************************************)
EXTENDS Integers, Sequences, FiniteSets, TLC

VARIABLES
    arg_text,            \* the linearized text handed to the classifier / dispatcher
    arg_doc_type,        \* the layout hint, then the resolved layout
    arg_is_name_or_pob,  \* the flag handed to clean_text
    ret_data,            \* the record a call returned (or is handed to the synthesizer)
    ret_filename,        \* the name generate_new_filename returned
    pc,                  \* position of the handler being run
    files,               \* the uploaded files of the request
    document_type,       \* the request's document_type form field
    use_name,            \* form field of /extract-and-rename
    use_passport,        \* form field of /extract-and-rename
    idx,                 \* number of files the batch loop has consumed
    all_results,         \* /extract-bulk: the collected entries
    extracted_data_list, \* /extract-and-rename: the collected records
    renamed_files,       \* /extract-and-rename: paths written, in order
    temp_dir,            \* /extract-and-rename: file name -> content
    archive,             \* export artifact (ZIP entries or Excel rows)
    response             \* what the handler returned

vars == <<arg_text, arg_doc_type, arg_is_name_or_pob, ret_data, ret_filename, pc, files, document_type,
          use_name, use_passport, idx, all_results, extracted_data_list, renamed_files,
          temp_dir, archive, response>>

(***************************************************************************)
(* Characters and strings                                                  *)
(***************************************************************************)
None == "<None>"

Only(S) == CHOOSE x \in S : TRUE

UpperLetters == "ABCDEFGHIJKLMNOPQRSTUVWXYZ"
LowerLetters == "abcdefghijklmnopqrstuvwxyz"
DigitChars == "0123456789"

Ch(s, i) == SubSeq(s, i, i)
CharsOf(s) == {Ch(s, i) : i \in 1..Len(s)}

UpperSet == CharsOf(UpperLetters)
LowerSet == CharsOf(LowerLetters)
DigitSet == CharsOf(DigitChars)
SpaceSet == {" ", "\n", "\t", "\r"}
WordSet == UpperSet \cup LowerSet \cup DigitSet \cup {"_"}

UpperOf == [c \in LowerSet |-> Ch(UpperLetters, CHOOSE i \in 1..26 : Ch(LowerLetters, i) = c)]
LowerOf == [c \in UpperSet |-> Ch(LowerLetters, CHOOSE i \in 1..26 : Ch(UpperLetters, i) = c)]

CharUpper(c) == IF c \in LowerSet THEN UpperOf[c] ELSE c
CharLower(c) == IF c \in UpperSet THEN LowerOf[c] ELSE c

\* divide and conquer keeps the evaluation shallow on long texts
RECURSIVE MapStr(_, _, _, _)
MapStr(s, lo, hi, up) ==
    IF lo > hi THEN ""
    ELSE IF lo = hi THEN (IF up THEN CharUpper(Ch(s, lo)) ELSE CharLower(Ch(s, lo)))
    ELSE LET mid == (lo + hi) \div 2
         IN MapStr(s, lo, mid, up) \o MapStr(s, mid + 1, hi, up)

\* str.upper() / str.lower()
StrUpper(s) == MapStr(s, 1, Len(s), TRUE)
StrLower(s) == MapStr(s, 1, Len(s), FALSE)

Max(a, b) == IF a > b THEN a ELSE b
Min(a, b) == IF a < b THEN a ELSE b

\* str.strip()
Strip(s) ==
    LET keep == {i \in 1..Len(s) : Ch(s, i) \notin SpaceSet}
    IN IF keep = {} THEN ""
       ELSE SubSeq(s, CHOOSE i \in keep : \A j \in keep : i <= j,
                      CHOOSE i \in keep : \A j \in keep : i >= j)

\* str.endswith(suffix)
EndsWith(s, suf) == Len(s) >= Len(suf) /\ SubSeq(s, Len(s) - Len(suf) + 1, Len(s)) = suf

\* str.find: the first index at which sub occurs in s, 0 if none ("sub in s")
Find(s, sub) ==
    LET at == {i \in 1..(Len(s) - Len(sub) + 1) : SubSeq(s, i, i + Len(sub) - 1) = sub}
    IN IF at = {} THEN 0 ELSE CHOOSE i \in at : \A j \in at : i <= j

\* Python truthiness of an optional string: None and "" are false
Truthy(v) == v # None /\ v # ""

(***************************************************************************)
(* Regular expressions (module re)                                         *)
(***************************************************************************)
Lit(s) == [t |-> "lit", s |-> s]
Cls(S) == [t |-> "set", s |-> S, neg |-> FALSE]
NotCls(S) == [t |-> "set", s |-> S, neg |-> TRUE]
Dot == [t |-> "any"]
WordB == [t |-> "wb"]
Cat(xs) == [t |-> "cat", xs |-> xs]
Alt(xs) == [t |-> "alt", xs |-> xs]
Rep(x, lo, hi) == [t |-> "rep", x |-> x, lo |-> lo, hi |-> hi]
Star(x) == Rep(x, 0, -1)
Plus(x) == Rep(x, 1, -1)
Opt(x) == Rep(x, 0, 1)
Grp(n, x) == [t |-> "grp", n |-> n, x |-> x]

\* \s  \d  \w
ReS == Cls(SpaceSet)
ReD == Cls(DigitSet)
ReW == Cls(WordSet)

NoCaps == <<<<0, 0>>, <<0, 0>>, <<0, 0>>, <<0, 0>>>>
ReFail == [ok |-> FALSE, start |-> 0, end |-> 0, caps |-> NoCaps]

InCls(c, S, ic) == c \in S \/ (ic /\ (CharUpper(c) \in S \/ CharLower(c) \in S))

LitAt(lit, s, i, ic) ==
    /\ i + Len(lit) - 1 <= Len(s)
    /\ \A j \in 1..Len(lit) :
          IF ic THEN CharUpper(Ch(s, i + j - 1)) = CharUpper(Ch(lit, j))
          ELSE Ch(s, i + j - 1) = Ch(lit, j)

IsWordAt(s, i) == i >= 1 /\ i <= Len(s) /\ Ch(s, i) \in WordSet

\* does the one-character node x (a class or the dot) accept the character at i
CharAt(x, s, i, ic) ==
    /\ i <= Len(s)
    /\ IF x.t = "any" THEN Ch(s, i) # "\n" ELSE InCls(Ch(s, i), x.s, ic) # x.neg

\* the number of consecutive characters from i that x accepts
RunLen(x, s, i, ic) ==
    CHOOSE r \in 0..(Len(s) - i + 1) :
        /\ \A j \in i..(i + r - 1) : CharAt(x, s, j, ic)
        /\ ~CharAt(x, s, i + r, ic)

\* The matcher: k is the sequence of nodes still to match at position i of s.
\* A repetition of a one-character node tries the longest run first (greedy).
RECURSIVE ReM(_, _, _, _, _)
ReM(k, s, i, caps, ic) ==
    IF Len(k) = 0 THEN [ok |-> TRUE, start |-> 0, end |-> i, caps |-> caps]
    ELSE
      LET n == Head(k)
          rest == Tail(k)
      IN CASE n.t = "lit" ->
                IF LitAt(n.s, s, i, ic) THEN ReM(rest, s, i + Len(n.s), caps, ic) ELSE ReFail
           [] n.t \in {"set", "any"} ->
                IF CharAt(n, s, i, ic) THEN ReM(rest, s, i + 1, caps, ic) ELSE ReFail
           [] n.t = "wb" ->
                IF IsWordAt(s, i - 1) # IsWordAt(s, i)
                THEN ReM(rest, s, i, caps, ic) ELSE ReFail
           [] n.t = "cat" -> ReM(n.xs \o rest, s, i, caps, ic)
           [] n.t = "alt" ->
                IF Len(n.xs) = 0 THEN ReFail
                ELSE Only({IF first.ok THEN first
                           ELSE ReM(<<Alt(Tail(n.xs))>> \o rest, s, i, caps, ic)
                           : first \in {ReM(<<Head(n.xs)>> \o rest, s, i, caps, ic)}})
           [] n.t = "rep" /\ n.x.t \in {"set", "any"} ->
                Only({IF good = {} THEN ReFail
                      ELSE (CHOOSE g \in good : \A h \in good : h.c <= g.c).m
                      : good \in {{g \in {[c |-> c, m |-> ReM(rest, s, i + c, caps, ic)]
                                          : c \in n.lo..(IF n.hi < 0 THEN RunLen(n.x, s, i, ic)
                                                         ELSE Min(RunLen(n.x, s, i, ic), n.hi))}
                                   : g.m.ok}}})
           [] n.t = "rep" /\ n.x.t \notin {"set", "any"} ->
                Only({IF more.ok THEN more
                      ELSE IF n.lo = 0 THEN ReM(rest, s, i, caps, ic) ELSE ReFail
                      : more \in {IF n.hi = 0 THEN ReFail
                                  ELSE ReM(<<n.x, Rep(n.x, Max(0, n.lo - 1),
                                                      IF n.hi < 0 THEN n.hi ELSE n.hi - 1)>> \o rest,
                                           s, i, caps, ic)}})
           [] n.t = "grp" ->
                ReM(<<n.x, [t |-> "end", n |-> n.n, from |-> i]>> \o rest, s, i, caps, ic)
           [] n.t = "end" ->
                ReM(rest, s, i, [caps EXCEPT ![n.n] = <<n.from, i>>], ic)

\* the leftmost match of pat in s starting at or after position i
ReSearchFrom(pat, s, i, ic) ==
    Only({IF found = {} THEN ReFail
          ELSE CHOOSE m \in found : \A o \in found : m.start <= o.start
          : found \in {{m \in {[ReM(<<pat>>, s, j, NoCaps, ic) EXCEPT !.start = j]
                               : j \in i..(Len(s) + 1)} : m.ok}}})

\* re.search(pat, s) and re.search(pat, s, re.IGNORECASE)
ReSearch(pat, s) == ReSearchFrom(pat, s, 1, FALSE)
ReSearchI(pat, s) == ReSearchFrom(pat, s, 1, TRUE)

\* match.group(0), match.group(n)
Group0(m, s) == SubSeq(s, m.start, m.end - 1)
Group(m, s, n) == SubSeq(s, m.caps[n][1], m.caps[n][2] - 1)

\* re.sub(pat, "", s): the non-overlapping matches removed, left to right
\* (every pattern the source substitutes consumes at least one character)
RECURSIVE ReSubFrom(_, _, _)
ReSubFrom(pat, s, i) ==
    Only({IF ~m.ok THEN SubSeq(s, i, Len(s))
          ELSE SubSeq(s, i, m.start - 1) \o ReSubFrom(pat, s, m.end)
          : m \in {ReSearchFrom(pat, s, i, FALSE)}})
ReSubDelete(pat, s) == ReSubFrom(pat, s, 1)

(***************************************************************************)
(* Helper functions of the source                                          *)
(***************************************************************************)
RECURSIVE ConcatRange(_, _, _)
ConcatRange(pieces, lo, hi) ==
    IF lo > hi THEN ""
    ELSE IF lo = hi THEN pieces[lo]
    ELSE LET mid == (lo + hi) \div 2
         IN ConcatRange(pieces, lo, mid) \o ConcatRange(pieces, mid + 1, hi)

\* "".join(pieces)
ConcatAll(pieces) == ConcatRange(pieces, 1, Len(pieces))

\* " ".join(text.split()): whitespace runs collapse to one space, the ends are trimmed
JoinSplit(text) ==
    LET t == Strip(text)
    IN ConcatAll([i \in 1..Len(t) |->
                    IF Ch(t, i) \notin SpaceSet THEN Ch(t, i)
                    ELSE IF Ch(t, i - 1) \in SpaceSet THEN "" ELSE " "])

\* text.replace("\n", " ").replace("\r", " ")
ReplaceNewlines(text) ==
    ConcatAll([i \in 1..Len(text) |-> IF Ch(text, i) \in {"\n", "\r"} THEN " " ELSE Ch(text, i)])

LabelWords ==
    Alt(<<Lit("Reference No"), Lit("Payment Receipt No"), Lit("Jenis Kelamin"),
          Lit("Kewarganegaraan"), Lit("Pekerjaan"), Lit("Alamat")>>)

clean_text(text, is_name_or_pob) ==
    IF text = None THEN ""
    ELSE LET t1 == ReSubDelete(LabelWords, text)
             t2 == IF is_name_or_pob THEN ReSubDelete(Lit("."), t1) ELSE t1
             t3 == Strip(ReSubDelete(
                       NotCls(UpperSet \cup LowerSet \cup DigitSet \cup SpaceSet
                              \cup {",", ".", "/", "-"}), t2))
         IN JoinSplit(t3)

\* (\d{2})[-/](\d{2})[-/](\d{4})
DateRe ==
    Cat(<<Grp(1, Rep(ReD, 2, 2)), Cls({"-", "/"}), Grp(2, Rep(ReD, 2, 2)),
          Cls({"-", "/"}), Grp(3, Rep(ReD, 4, 4))>>)

\* format_date that gives "" for a string without a date
format_date_no_passthrough(date_str) ==
    IF ~Truthy(date_str) THEN ""
    ELSE Only({IF m.ok
               THEN Group(m, date_str, 1) \o "/" \o Group(m, date_str, 2) \o "/" \o
                    Group(m, date_str, 3)
               ELSE ""
               : m \in {ReSearch(DateRe, date_str)}})

format_date(date_str) ==
    IF ~Truthy(date_str) THEN ""
    ELSE LET m == ReSearch(DateRe, date_str)
         IN IF m.ok
            THEN Group(m, date_str, 1) \o "/" \o Group(m, date_str, 2) \o "/" \o Group(m, date_str, 3)
            ELSE date_str

\* text.split(", "): the positions at which a separator starts, scanning left to right
RECURSIVE SplitAt(_, _, _)
SplitAt(text, sep, i) ==
    LET rel == Find(SubSeq(text, i, Len(text)), sep)
    IN IF rel = 0 THEN <<SubSeq(text, i, Len(text))>>
       ELSE <<SubSeq(text, i, i + rel - 2)>> \o SplitAt(text, sep, i + rel - 1 + Len(sep))
Split(text, sep) == SplitAt(text, sep, 1)

\* returns the pair <<place, date>>
split_birth_place_date(text) ==
    IF Truthy(text) /\ Len(Split(text, ", ")) = 2
    THEN <<Strip(Split(text, ", ")[1]), format_date(Split(text, ", ")[2])>>
    ELSE <<text, None>>

MaxPartLen == 30

\* sanitize_filename_part without the cut at MaxPartLen characters
sanitize_filename_part_uncut(text) ==
    IF ~Truthy(text) THEN ""
    ELSE Strip(ReSubDelete(NotCls(WordSet \cup SpaceSet \cup {"-"}), ReplaceNewlines(text)))

sanitize_filename_part(text) ==
    IF ~Truthy(text) THEN ""
    ELSE Only({IF Len(t) > MaxPartLen THEN Strip(SubSeq(t, 1, MaxPartLen)) ELSE t
               : t \in {Strip(ReSubDelete(NotCls(WordSet \cup SpaceSet \cup {"-"}),
                                          ReplaceNewlines(text)))}})

\* dict.get(key)
Get(d, k) == IF k \in DOMAIN d THEN d[k] ELSE None

\* Python's "a or b"
Or(a, b) == IF Truthy(a) THEN a ELSE b

name_raw(extracted_data) ==
    Or(Get(extracted_data, "Name"), Or(Get(extracted_data, "Nama TKA"), ""))

\* passport_raw with "Passport No" consulted before "Nomor Paspor"
passport_raw_no_first(extracted_data) ==
    Or(Get(extracted_data, "Passport Number"),
       Or(Get(extracted_data, "Passport No"),
          Or(Get(extracted_data, "Nomor Paspor"),
             Or(Get(extracted_data, "KITAS/KITAP"), ""))))

passport_raw(extracted_data) ==
    Or(Get(extracted_data, "Passport Number"),
       Or(Get(extracted_data, "Nomor Paspor"),
          Or(Get(extracted_data, "Passport No"),
             Or(Get(extracted_data, "KITAS/KITAP"), ""))))

generate_new_filename(extracted_data, useName, usePassport) ==
    Only({(IF name # "" /\ passport # "" THEN name \o " " \o passport
           ELSE IF name # "" THEN name
           ELSE IF passport # "" THEN passport
           ELSE "RENAMED") \o ".pdf"
          : name \in {IF useName /\ Truthy(name_raw(extracted_data))
                      THEN sanitize_filename_part(name_raw(extracted_data)) ELSE ""},
            passport \in {IF usePassport /\ Truthy(passport_raw(extracted_data))
                          THEN sanitize_filename_part(passport_raw(extracted_data)) ELSE ""}})

(***************************************************************************)
(* Document type detection                                                 *)
(***************************************************************************)
\* detect_document_type with the visit-permit branch moved above the stay-permit branch
detect_document_type_itk_first(text) ==
    IF ReSearchI(Lit("SURAT KETERANGAN TENAGA KERJA TERDAFTAR"), text).ok THEN "SKTT"
    ELSE IF ReSearchI(Alt(<<Lit("ENTRY VISA"), Lit("VISA ENTRY")>>), text).ok THEN "EVLN"
    ELSE IF ReSearchI(Alt(<<Lit("IZIN TINGGAL KUNJUNGAN"), Lit("VISIT PERMIT")>>), text).ok
         THEN "ITK"
    ELSE IF ReSearchI(Alt(<<Lit("STAY PERMIT"), Lit("PERMIT TO STAY"), Lit("IZIN TINGGAL")>>),
                      text).ok THEN "ITAS"
    ELSE IF ReSearchI(Lit("NOTIFIKASI"), text).ok THEN "NOTIFIKASI"
    ELSE IF ReSearchI(Lit("DKPTKA"), text).ok THEN "DKPTKA"
    ELSE "UNKNOWN"

detect_document_type(text) ==
    IF ReSearchI(Lit("SURAT KETERANGAN TENAGA KERJA TERDAFTAR"), text).ok THEN "SKTT"
    ELSE IF ReSearchI(Alt(<<Lit("ENTRY VISA"), Lit("VISA ENTRY")>>), text).ok THEN "EVLN"
    ELSE IF ReSearchI(Alt(<<Lit("STAY PERMIT"), Lit("PERMIT TO STAY"), Lit("IZIN TINGGAL")>>),
                      text).ok THEN "ITAS"
    ELSE IF ReSearchI(Alt(<<Lit("IZIN TINGGAL KUNJUNGAN"), Lit("VISIT PERMIT")>>), text).ok
         THEN "ITK"
    ELSE IF ReSearchI(Lit("NOTIFIKASI"), text).ok THEN "NOTIFIKASI"
    ELSE IF ReSearchI(Lit("DKPTKA"), text).ok THEN "DKPTKA"
    ELSE "UNKNOWN"

(***************************************************************************)
(* Layout extractors                                                       *)
(***************************************************************************)
AZ == UpperSet
Alpha == UpperSet \cup LowerSet

\* r'<label>\s*:\s*(<cap>)'
Labeled(label, cap) == Cat(<<Lit(label), Star(ReS), Lit(":"), Star(ReS), Grp(1, cap)>>)

\* the set S as the sequence of its elements in increasing order
SortedSeq(S) == [k \in 1..Cardinality(S) |-> CHOOSE x \in S : Cardinality({y \in S : y < x}) = k - 1]

\* str.splitlines(): lines end at "\n", "\r" or "\r\n"; no empty last line
SplitLines(text) ==
    LET terms == SortedSeq({i \in 1..Len(text) :
                     \/ Ch(text, i) = "\r"
                     \/ Ch(text, i) = "\n" /\ (i = 1 \/ Ch(text, i - 1) # "\r")})
        termLen(i) == IF Ch(text, i) = "\r" /\ i < Len(text) /\ Ch(text, i + 1) = "\n" THEN 2 ELSE 1
        startOf(k) == IF k = 1 THEN 1 ELSE terms[k - 1] + termLen(terms[k - 1])
        n == Len(terms)
    IN [k \in 1..n |-> SubSeq(text, startOf(k), terms[k] - 1)] \o
       (IF startOf(n + 1) <= Len(text) THEN <<SubSeq(text, startOf(n + 1), Len(text))>> ELSE <<>>)

\* r'([A-Z\s]+),\s*(\d{2}-\d{2}-\d{4})'
SkttIssueRe ==
    Cat(<<Grp(1, Plus(Cls(AZ \cup SpaceSet))), Lit(","), Star(ReS),
          Grp(2, Cat(<<Rep(ReD, 2, 2), Lit("-"), Rep(ReD, 2, 2), Lit("-"), Rep(ReD, 4, 4)>>))>>)

\* the Date Issue scan of extract_sktt: the line before the first "KEPALA DINAS" line
sktt_date_issue(text) ==
    LET lines == SplitLines(Strip(text))
        hits == {i \in 1..Len(lines) : Find(StrUpper(lines[i]), "KEPALA DINAS") > 0}
        first == CHOOSE i \in hits : \A j \in hits : i <= j
    IN IF hits = {} \/ first = 1 THEN None
       ELSE LET m == ReSearch(SkttIssueRe, lines[first - 1])
            IN IF m.ok THEN Group(m, lines[first - 1], 2) ELSE None

extract_sktt(text) ==
    LET nik == ReSearch(Labeled("NIK/Number of Population Identity", Plus(ReD)), text)
        name == ReSearch(Labeled("Nama/Name", Plus(Cls(WordSet \cup SpaceSet))), text)
        gender == ReSearch(Labeled("Jenis Kelamin/Sex", Alt(<<Lit("MALE"), Lit("FEMALE")>>)), text)
        birth_place_date ==
            ReSearch(Labeled("Tempat/Tgl Lahir", Plus(Cls(WordSet \cup SpaceSet \cup {",", "-"}))), text)
        nationality == ReSearch(Labeled("Kewarganegaraan/Nationality", Plus(Cls(WordSet \cup SpaceSet))), text)
        occupation == ReSearch(Labeled("Pekerjaan/Occupation", Plus(Cls(WordSet \cup SpaceSet))), text)
        address ==
            ReSearch(Labeled("Alamat/Address", Plus(Cls(WordSet \cup SpaceSet \cup {",", ".", "/", "-"}))), text)
        kitab_kitas == ReSearch(Labeled("Nomor KITAP/KITAS Number", Plus(Cls(WordSet \cup {"-"}))), text)
        expiry_date ==
            ReSearch(Cat(<<Lit("Berlaku Hingga s"), Dot, Lit("d/Expired date"), Star(ReS), Lit(":"),
                           Star(ReS), Grp(1, Plus(Cls(DigitSet \cup {"-"})))>>), text)
        date_issue == sktt_date_issue(text)
        birth == IF birth_place_date.ok THEN split_birth_place_date(Group(birth_place_date, text, 1))
                 ELSE <<None, None>>
    IN ("NIK" :> (IF nik.ok THEN Group(nik, text, 1) ELSE None)) @@
       ("Name" :> (IF name.ok THEN clean_text(Group(name, text, 1), TRUE) ELSE None)) @@
       ("Jenis Kelamin" :> (IF gender.ok THEN Group(gender, text, 1) ELSE None)) @@
       ("Place of Birth" :> (IF Truthy(birth[1]) THEN clean_text(birth[1], TRUE) ELSE None)) @@
       ("Date of Birth" :> birth[2]) @@
       ("Nationality" :> (IF nationality.ok THEN clean_text(Group(nationality, text, 1), FALSE) ELSE None)) @@
       ("Occupation" :> (IF occupation.ok THEN clean_text(Group(occupation, text, 1), FALSE) ELSE None)) @@
       ("Address" :> (IF address.ok THEN clean_text(Group(address, text, 1), FALSE) ELSE None)) @@
       ("KITAS/KITAP" :> (IF kitab_kitas.ok THEN clean_text(Group(kitab_kitas, text, 1), FALSE) ELSE None)) @@
       ("Passport Expiry" :> (IF expiry_date.ok THEN format_date(Group(expiry_date, text, 1)) ELSE None)) @@
       ("Date Issue" :> (IF Truthy(date_issue) THEN format_date(date_issue) ELSE None)) @@
       ("Jenis Dokumen" :> "SKTT")

\* r"(\d{2}/\d{2}/\d{4}|\d{2}-\d{2}-\d{4})"
EvlnDateRe ==
    Grp(1, Alt(<<Cat(<<Rep(ReD, 2, 2), Lit("/"), Rep(ReD, 2, 2), Lit("/"), Rep(ReD, 4, 4)>>),
                 Cat(<<Rep(ReD, 2, 2), Lit("-"), Rep(ReD, 2, 2), Lit("-"), Rep(ReD, 4, 4)>>)>>))

\* (\d{1,2}[/\-]\d{1,2}[/\-]\d{4})
LooseDate ==
    Cat(<<Rep(ReD, 1, 2), Cls({"/", "-"}), Rep(ReD, 1, 2), Cls({"/", "-"}), Rep(ReD, 4, 4)>>)

EvlnIssuePatterns ==
    <<Cat(<<Alt(<<Cat(<<Lit("Date"), Plus(ReS), Lit("of"), Plus(ReS), Lit("Issue")>>),
                  Cat(<<Lit("Issue"), Plus(ReS), Lit("Date")>>),
                  Cat(<<Lit("Issued"), Plus(ReS), Lit("on")>>),
                  Cat(<<Lit("Tanggal"), Plus(ReS), Lit("Penerbitan")>>)>>),
            Star(ReS), Opt(Lit(":")), Star(ReS), Grp(1, LooseDate)>>),
      Cat(<<Alt(<<Lit("Issued"), Lit("Diterbitkan")>>),
            Star(ReS), Opt(Lit(":")), Star(ReS), Grp(1, LooseDate)>>)>>

\* r"Dear\s+(Mr\.|Ms\.|Sir|Madam)?"
DearRe == Cat(<<Lit("Dear"), Plus(ReS),
                Opt(Grp(1, Alt(<<Lit("Mr."), Lit("Ms."), Lit("Sir"), Lit("Madam")>>)))>>)

\* the salutation loop of extract_evln: the name it stores, "" if none
evln_salutation_name(lines) ==
    LET hits == {i \in 1..Len(lines) : ReSearchI(DearRe, lines[i]).ok}
        first == CHOOSE i \in hits : \A j \in hits : i <= j
    IN IF hits = {} \/ first + 1 > Len(lines) THEN ""
       ELSE LET name_candidate == Strip(lines[first + 1])
            IN IF 3 < Len(name_candidate) /\ Len(name_candidate) < 50
               THEN clean_text(name_candidate, TRUE) ELSE ""

WordLit(w) == Cat(<<WordB, Lit(w), WordB>>)

\* one iteration of the field loop of extract_evln
evln_line(data, line) ==
    LET parts == Split(line, ":")
    IN IF ~Truthy(data["Name"]) /\ ReSearchI(Alt(<<WordLit("Name"), WordLit("Nama")>>), line).ok
       THEN IF Len(parts) > 1 THEN [data EXCEPT !["Name"] = clean_text(parts[2], TRUE)] ELSE data
       ELSE IF ReSearchI(Alt(<<WordLit("Place of Birth"), WordLit("Tempat Lahir")>>), line).ok
       THEN IF Len(parts) > 1
            THEN LET pob_text == Strip(parts[2])
                     pob_cleaned ==
                         ReSubDelete(Cat(<<Star(ReS), Lit("Visa"), Star(ReS), Lit("Type"),
                                           Star(ReS), Star(Dot)>>), pob_text)
                 IN [data EXCEPT !["Place of Birth"] = clean_text(pob_cleaned, TRUE)]
            ELSE data
       ELSE IF ReSearchI(Alt(<<WordLit("Date of Birth"), WordLit("Tanggal Lahir")>>), line).ok
       THEN LET m == ReSearch(EvlnDateRe, line)
            IN IF m.ok THEN [data EXCEPT !["Date of Birth"] = format_date(Group(m, line, 1))] ELSE data
       ELSE IF ReSearchI(WordLit("Passport No"), line).ok
       THEN LET m == ReSearch(Cat(<<WordB, Grp(1, Plus(Cls(AZ \cup DigitSet))), WordB>>), line)
            IN IF m.ok THEN [data EXCEPT !["Passport No"] = Group(m, line, 1)] ELSE data
       ELSE IF ReSearchI(WordLit("Passport Expiry"), line).ok
       THEN LET m == ReSearch(EvlnDateRe, line)
            IN IF m.ok THEN [data EXCEPT !["Passport Expiry"] = format_date(Group(m, line, 1))] ELSE data
       ELSE data

RECURSIVE evln_lines(_, _, _)
evln_lines(data, lines, i) ==
    IF i > Len(lines) THEN data ELSE evln_lines(evln_line(data, lines[i]), lines, i + 1)

evln_date_issue(text) ==
    LET m1 == ReSearchI(EvlnIssuePatterns[1], text)
        m2 == ReSearchI(EvlnIssuePatterns[2], text)
    IN IF m1.ok THEN format_date(Group(m1, text, 1))
       ELSE IF m2.ok THEN format_date(Group(m2, text, 1))
       ELSE ""

extract_evln(text) ==
    LET lines == Split(text, "\n")
        data0 == ("Name" :> evln_salutation_name(lines)) @@ ("Place of Birth" :> "") @@
                 ("Date of Birth" :> "") @@ ("Passport No" :> "") @@ ("Passport Expiry" :> "") @@
                 ("Date Issue" :> "") @@ ("Jenis Dokumen" :> "EVLN")
        data1 == evln_lines(data0, lines, 1)
    IN IF ~Truthy(data1["Date Issue"])
       THEN [data1 EXCEPT !["Date Issue"] = evln_date_issue(text)]
       ELSE data1

\* the English month table of extract_itas: month_dict.get(month, month)
EnglishMonth(month) ==
    CASE month = "January" -> "01" [] month = "February" -> "02" [] month = "March" -> "03"
      [] month = "April" -> "04" [] month = "May" -> "05" [] month = "June" -> "06"
      [] month = "July" -> "07" [] month = "August" -> "08" [] month = "September" -> "09"
      [] month = "October" -> "10" [] month = "November" -> "11" [] month = "December" -> "12"
      [] OTHER -> month

\* str.zfill(2)
Zfill2(t) == IF Len(t) < 2 THEN "0" \o t ELSE t

\* r"([A-Za-z]+),\s*(\d{1,2})\s+([A-Za-z]+)\s+(\d{4})"
ItasIssueRe ==
    Cat(<<Grp(1, Plus(Cls(Alpha))), Lit(","), Star(ReS), Grp(2, Rep(ReD, 1, 2)), Plus(ReS),
          Grp(3, Plus(Cls(Alpha))), Plus(ReS), Grp(4, Rep(ReD, 4, 4))>>)

\* the Date Issue part of extract_itas
itas_date_issue(text) ==
    LET date_issue_match == ReSearch(ItasIssueRe, text)
        fallback_date_match ==
            ReSearch(Cat(<<Grp(1, Rep(ReD, 1, 2)), Cls({"/", "-"}), Grp(2, Rep(ReD, 1, 2)),
                           Cls({"/", "-"}), Grp(3, Rep(ReD, 4, 4))>>), text)
    IN IF date_issue_match.ok
       THEN LET day == Group(date_issue_match, text, 2)
                month == Group(date_issue_match, text, 3)
                year == Group(date_issue_match, text, 4)
                month_num == EnglishMonth(month)
                date_str == Zfill2(day) \o "/" \o month_num \o "/" \o year
            IN format_date(date_str)
       ELSE IF fallback_date_match.ok THEN format_date(Group0(fallback_date_match, text))
       ELSE None

\* r"<label>\s*: (<cap>)"
LabeledSp(label, cap) == Cat(<<Lit(label), Star(ReS), Lit(": "), Grp(1, cap)>>)

itas_fields(text) ==
    LET name_match == ReSearch(Cat(<<Grp(1, Plus(Cls(AZ \cup SpaceSet))), Lit("\nPERMIT NUMBER")>>), text)
        permit_match == ReSearch(Labeled("PERMIT NUMBER", Plus(Cls(AZ \cup DigitSet \cup {"-"}))), text)
        expiry_match == ReSearch(Labeled("STAY PERMIT EXPIRY", Plus(Cls(DigitSet \cup {"/"}))), text)
        place_date_birth_match ==
            ReSearch(Cat(<<Lit("Place / Date of Birth"), Star(ReS), Star(Dot), Lit(":"), Star(ReS),
                           Grp(1, Plus(Cls(Alpha \cup SpaceSet))), Star(ReS), Lit("/"), Star(ReS),
                           Grp(2, Plus(Cls(DigitSet \cup {"-"})))>>), text)
        passport_match == ReSearch(LabeledSp("Passport Number", Plus(Cls(AZ \cup DigitSet))), text)
        passport_expiry_match == ReSearch(LabeledSp("Passport Expiry", Plus(Cls(DigitSet \cup {"-"}))), text)
        nationality_match == ReSearch(LabeledSp("Nationality", Plus(Cls(AZ))), text)
        gender_match == ReSearch(LabeledSp("Gender", Plus(Cls(AZ))), text)
        address_match == ReSearch(Labeled("Address", Plus(Dot)), text)
        occupation_match == ReSearch(Labeled("Occupation", Plus(Dot)), text)
        guarantor_match == ReSearch(Labeled("Guarantor", Plus(Dot)), text)
    IN ("Name" :> (IF name_match.ok THEN Strip(Group(name_match, text, 1)) ELSE None)) @@
       ("Permit Number" :> (IF permit_match.ok THEN Group(permit_match, text, 1) ELSE None)) @@
       ("Stay Permit Expiry" :>
            (IF expiry_match.ok THEN format_date(Group(expiry_match, text, 1)) ELSE None)) @@
       ("Place & Date of Birth" :>
            (IF place_date_birth_match.ok
             THEN Strip(Group(place_date_birth_match, text, 1)) \o ", " \o
                  format_date(Strip(Group(place_date_birth_match, text, 2)))
             ELSE None)) @@
       ("Passport Number" :> (IF passport_match.ok THEN Group(passport_match, text, 1) ELSE None)) @@
       ("Passport Expiry" :>
            (IF passport_expiry_match.ok THEN format_date(Group(passport_expiry_match, text, 1))
             ELSE None)) @@
       ("Nationality" :> (IF nationality_match.ok THEN Group(nationality_match, text, 1) ELSE None)) @@
       ("Gender" :> (IF gender_match.ok THEN Group(gender_match, text, 1) ELSE None)) @@
       ("Address" :> (IF address_match.ok THEN Strip(Group(address_match, text, 1)) ELSE None)) @@
       ("Occupation" :> (IF occupation_match.ok THEN Strip(Group(occupation_match, text, 1)) ELSE None)) @@
       ("Guarantor" :> (IF guarantor_match.ok THEN Strip(Group(guarantor_match, text, 1)) ELSE None))

extract_itas(text) ==
    itas_fields(text) @@ ("Date Issue" :> itas_date_issue(text)) @@ ("Jenis Dokumen" :> "ITAS")

extract_itk(text) == [extract_itas(text) EXCEPT !["Jenis Dokumen"] = "ITK"]

\* \d{2}[-/]\d{2}[-/]\d{4}
StrictDate ==
    Cat(<<Rep(ReD, 2, 2), Cls({"-", "/"}), Rep(ReD, 2, 2), Cls({"-", "/"}), Rep(ReD, 4, 4)>>)

\* r"Berlaku\s*:?\s*(<date>)\s*(?:s\.?d\.?|sampai dengan)?\s*(<date>)"
BerlakuRe ==
    Cat(<<Lit("Berlaku"), Star(ReS), Opt(Lit(":")), Star(ReS), Grp(1, StrictDate), Star(ReS),
          Opt(Alt(<<Cat(<<Lit("s"), Opt(Lit(".")), Lit("d"), Opt(Lit("."))>>), Lit("sampai dengan")>>)),
          Star(ReS), Grp(2, StrictDate)>>)

\* r"Tanggal Berlaku\s*:?\s*(<date>)\s*s\.?d\.?\s*(<date>)"
TanggalBerlakuRe ==
    Cat(<<Lit("Tanggal Berlaku"), Star(ReS), Opt(Lit(":")), Star(ReS), Grp(1, StrictDate), Star(ReS),
          Lit("s"), Opt(Lit(".")), Lit("d"), Opt(Lit(".")), Star(ReS), Grp(2, StrictDate)>>)

\* r"Pada tanggal\s*:\s*(\d{1,2})\s+(Januari|...|Desember)\s+(\d{4})"
PadaTanggalRe ==
    Cat(<<Lit("Pada tanggal"), Star(ReS), Lit(":"), Star(ReS), Grp(1, Rep(ReD, 1, 2)), Plus(ReS),
          Grp(2, Alt(<<Lit("Januari"), Lit("Februari"), Lit("Maret"), Lit("April"), Lit("Mei"),
                       Lit("Juni"), Lit("Juli"), Lit("Agustus"), Lit("September"), Lit("Oktober"),
                       Lit("November"), Lit("Desember")>>)),
          Plus(ReS), Grp(3, Rep(ReD, 4, 4))>>)

\* the Indonesian month table: month_dict.get(month_name.lower(), '01')
IndonesianMonth(month) ==
    CASE month = "januari" -> "01" [] month = "februari" -> "02" [] month = "maret" -> "03"
      [] month = "april" -> "04" [] month = "mei" -> "05" [] month = "juni" -> "06"
      [] month = "juli" -> "07" [] month = "agustus" -> "08" [] month = "september" -> "09"
      [] month = "oktober" -> "10" [] month = "november" -> "11" [] month = "desember" -> "12"
      [] OTHER -> "01"

extract_notifikasi(text) ==
    LET find(label) ==
            LET m == ReSearchI(Labeled(label, Star(Dot)), text)
            IN IF m.ok THEN Strip(Group(m, text, 1)) ELSE ""
        nomor_keputusan_match ==
            ReSearchI(Cat(<<Lit("NOMOR"), Plus(ReS),
                            Grp(1, Plus(Cls(AZ \cup DigitSet \cup {".", "/", "-"})))>>), text)
        first_valid == ReSearchI(BerlakuRe, text)
        valid_match == IF first_valid.ok THEN first_valid ELSE ReSearchI(TanggalBerlakuRe, text)
        date_issue_match == ReSearchI(PadaTanggalRe, text)
    IN ("Nomor Keputusan" :>
            (IF nomor_keputusan_match.ok THEN Strip(Group(nomor_keputusan_match, text, 1)) ELSE "")) @@
       ("Nama TKA" :> find("Nama TKA")) @@
       ("Tempat/Tanggal Lahir" :> find("Tempat/Tanggal Lahir")) @@
       ("Kewarganegaraan" :> find("Kewarganegaraan")) @@
       ("Alamat Tempat Tinggal" :> find("Alamat Tempat Tinggal")) @@
       ("Nomor Paspor" :> find("Nomor Paspor")) @@
       ("Jabatan" :> find("Jabatan")) @@
       ("Lokasi Kerja" :> find("Lokasi Kerja")) @@
       ("Berlaku" :>
            (IF valid_match.ok
             THEN format_date(Group(valid_match, text, 1)) \o " - " \o
                  format_date(Group(valid_match, text, 2))
             ELSE "")) @@
       ("Date Issue" :>
            (IF date_issue_match.ok
             THEN Zfill2(Group(date_issue_match, text, 1)) \o "/" \o
                  IndonesianMonth(StrLower(Group(date_issue_match, text, 2))) \o "/" \o
                  Group(date_issue_match, text, 3)
             ELSE "")) @@
       ("Jenis Dokumen" :> "NOTIFIKASI")

\* extract_dkptka that leaves the day of Date Issue without its leading zero
extract_dkptka_day_unpadded(text) ==
    LET find(label) ==
            LET m == ReSearchI(Labeled(label, Star(Dot)), text)
            IN IF m.ok THEN Strip(Group(m, text, 1)) ELSE ""
        nomor_keputusan_match ==
            ReSearchI(Cat(<<Lit("NOMOR"), Plus(ReS),
                            Grp(1, Plus(Cls(AZ \cup DigitSet \cup {".", "/", "-"})))>>), text)
        first_valid == ReSearchI(BerlakuRe, text)
        valid_match == IF first_valid.ok THEN first_valid ELSE ReSearchI(TanggalBerlakuRe, text)
        date_issue_match == ReSearchI(PadaTanggalRe, text)
    IN ("Nomor Keputusan" :>
            (IF nomor_keputusan_match.ok THEN Strip(Group(nomor_keputusan_match, text, 1)) ELSE "")) @@
       ("Nama TKA" :> find("Nama TKA")) @@
       ("Tempat/Tanggal Lahir" :> find("Tempat/Tanggal Lahir")) @@
       ("Kewarganegaraan" :> find("Kewarganegaraan")) @@
       ("Alamat Tempat Tinggal" :> find("Alamat Tempat Tinggal")) @@
       ("Nomor Paspor" :> find("Nomor Paspor")) @@
       ("Jabatan" :> find("Jabatan")) @@
       ("Lokasi Kerja" :> find("Lokasi Kerja")) @@
       ("Berlaku" :>
            (IF valid_match.ok
             THEN format_date(Group(valid_match, text, 1)) \o " - " \o
                  format_date(Group(valid_match, text, 2))
             ELSE "")) @@
       ("Date Issue" :>
            (IF date_issue_match.ok
             THEN Group(date_issue_match, text, 1) \o "/" \o
                  IndonesianMonth(StrLower(Group(date_issue_match, text, 2))) \o "/" \o
                  Group(date_issue_match, text, 3)
             ELSE "")) @@
       ("Jenis Dokumen" :> "DKPTKA")

extract_dkptka(text) ==
    LET find(label) ==
            LET m == ReSearchI(Labeled(label, Star(Dot)), text)
            IN IF m.ok THEN Strip(Group(m, text, 1)) ELSE ""
        nomor_keputusan_match ==
            ReSearchI(Cat(<<Lit("NOMOR"), Plus(ReS),
                            Grp(1, Plus(Cls(AZ \cup DigitSet \cup {".", "/", "-"})))>>), text)
        first_valid == ReSearchI(BerlakuRe, text)
        valid_match == IF first_valid.ok THEN first_valid ELSE ReSearchI(TanggalBerlakuRe, text)
        date_issue_match == ReSearchI(PadaTanggalRe, text)
    IN ("Nomor Keputusan" :>
            (IF nomor_keputusan_match.ok THEN Strip(Group(nomor_keputusan_match, text, 1)) ELSE "")) @@
       ("Nama TKA" :> find("Nama TKA")) @@
       ("Tempat/Tanggal Lahir" :> find("Tempat/Tanggal Lahir")) @@
       ("Kewarganegaraan" :> find("Kewarganegaraan")) @@
       ("Alamat Tempat Tinggal" :> find("Alamat Tempat Tinggal")) @@
       ("Nomor Paspor" :> find("Nomor Paspor")) @@
       ("Jabatan" :> find("Jabatan")) @@
       ("Lokasi Kerja" :> find("Lokasi Kerja")) @@
       ("Berlaku" :>
            (IF valid_match.ok
             THEN format_date(Group(valid_match, text, 1)) \o " - " \o
                  format_date(Group(valid_match, text, 2))
             ELSE "")) @@
       ("Date Issue" :>
            (IF date_issue_match.ok
             THEN Zfill2(Group(date_issue_match, text, 1)) \o "/" \o
                  IndonesianMonth(StrLower(Group(date_issue_match, text, 2))) \o "/" \o
                  Group(date_issue_match, text, 3)
             ELSE "")) @@
       ("Jenis Dokumen" :> "DKPTKA")

(***************************************************************************)
(* Dispatcher                                                              *)
(***************************************************************************)
\* extract_data_by_type whose last branch takes every remaining kind
extract_data_by_type_no_else(text, doc_type) ==
    IF doc_type = "SKTT" THEN extract_sktt(text)
    ELSE IF doc_type = "EVLN" THEN extract_evln(text)
    ELSE IF doc_type = "ITAS" THEN extract_itas(text)
    ELSE IF doc_type = "ITK" THEN extract_itk(text)
    ELSE IF doc_type = "NOTIFIKASI" THEN extract_notifikasi(text)
    ELSE extract_dkptka(text)

extract_data_by_type(text, doc_type) ==
    IF doc_type = "SKTT" THEN extract_sktt(text)
    ELSE IF doc_type = "EVLN" THEN extract_evln(text)
    ELSE IF doc_type = "ITAS" THEN extract_itas(text)
    ELSE IF doc_type = "ITK" THEN extract_itk(text)
    ELSE IF doc_type = "NOTIFIKASI" THEN extract_notifikasi(text)
    ELSE IF doc_type = "DKPTKA" THEN extract_dkptka(text)
    ELSE "error" :> ("Unknown document type: " \o doc_type)

(***************************************************************************)
(* Inputs                                                                  *)
(***************************************************************************)
\* the marker phrases detect_document_type searches for, per layout
MarkersOf(layout) ==
    CASE layout = "SKTT" -> {"SURAT KETERANGAN TENAGA KERJA TERDAFTAR"}
      [] layout = "EVLN" -> {"ENTRY VISA", "VISA ENTRY"}
      [] layout = "ITAS" -> {"STAY PERMIT", "PERMIT TO STAY", "IZIN TINGGAL"}
      [] layout = "ITK" -> {"IZIN TINGGAL KUNJUNGAN", "VISIT PERMIT"}
      [] layout = "NOTIFIKASI" -> {"NOTIFIKASI"}
      [] layout = "DKPTKA" -> {"DKPTKA"}

\* the supported layouts, in the order the classifier tries them
LayoutOrder == <<"SKTT", "EVLN", "ITAS", "ITK", "NOTIFIKASI", "DKPTKA">>
Supported == {LayoutOrder[i] : i \in 1..Len(LayoutOrder)}

AllMarkers == UNION {MarkersOf(l) : l \in Supported}

\* a phrase that is no marker
Filler == "LAMPIRAN"

\* letter cases a phrase is tried in: as written (upper), lower, alternating
MixedCase(s) ==
    ConcatAll([i \in 1..Len(s) |-> IF i % 2 = 1 THEN CharLower(Ch(s, i)) ELSE CharUpper(Ch(s, i))])
CaseVariants(s) == {s, StrLower(s), MixedCase(s)}

MaxFragments == 2

\* "\n".join(lines)
RECURSIVE JoinLines(_)
JoinLines(lines) ==
    IF Len(lines) = 0 THEN ""
    ELSE IF Len(lines) = 1 THEN lines[1]
    ELSE lines[1] \o "\n" \o JoinLines(Tail(lines))

SeqsUpTo(S, n) == UNION {[1..k -> S] : k \in 0..n}

\* texts for the classifier: up to MaxFragments phrases, one per line, in each case
MarkerTexts ==
    UNION {CaseVariants(JoinLines(f)) : f \in SeqsUpTo(AllMarkers \cup {Filler}, MaxFragments)}

\* lines of documents, for the extractors
DocLines ==
    {"STAY PERMIT", "NOTIFIKASI", "Jakarta, 14 Maret 2023", "Monday, 14 March 2023",
     "Issued 5/3/2024", "Passport Expiry : 01-02-2030", "Pada tanggal : 4 Maret 2024",
     "Tempat/Tgl Lahir : TOKYO, 1990", "Nama TKA : BUDI",
     "Berlaku : 01-02-2024 s.d 01-02-2025"}

MaxLines == 2

DocTexts == {JoinLines(f) : f \in SeqsUpTo(DocLines, MaxLines)}

\* layout hints a caller may pass, besides "auto"
Hints == {"SKTT", "EVLN", "ITAS", "ITK", "NOTIFIKASI", "DKPTKA", "UNKNOWN", "itas", "KTP"}

Idle ==
    /\ files = <<>> /\ document_type = "auto" /\ use_name = TRUE /\ use_passport = TRUE
    /\ idx = 0 /\ all_results = <<>> /\ extracted_data_list = <<>> /\ renamed_files = <<>>
    /\ temp_dir = <<>> /\ archive = None /\ response = None

handlerVars == <<files, document_type, use_name, use_passport, idx, all_results,
                 extracted_data_list, renamed_files, temp_dir, archive, response>>

(***************************************************************************)
(* Classification alone: detect_document_type applied to a text            *)
(***************************************************************************)
InitClassify ==
    /\ arg_text \in MarkerTexts
    /\ arg_doc_type = "auto" /\ ret_data = None /\ ret_filename = None
    /\ arg_is_name_or_pob = FALSE
    /\ pc = "start"
    /\ Idle

Classify ==
    /\ pc = "start"
    /\ arg_doc_type' = detect_document_type(arg_text)
    /\ pc' = "classified"
    /\ UNCHANGED <<arg_is_name_or_pob, arg_text, ret_data, ret_filename, handlerVars>>

NextClassify == Classify

SpecClassify == InitClassify /\ [][NextClassify]_vars

\* does phrase occur in text, letter case ignored
Occurs(phrase, text) ==
    \E i \in 1..(Len(text) - Len(phrase) + 1) :
        StrUpper(SubSeq(text, i, i + Len(phrase) - 1)) = StrUpper(phrase)

HasMarker(text, layout) == \E phrase \in MarkersOf(layout) : Occurs(phrase, text)

\* C1: the layout detect_document_type returns is the first one, in the order
\* SKTT, EVLN, ITAS, ITK, NOTIFIKASI, DKPTKA, that has a marker in the text:
\* it has one, no earlier layout has one, and UNKNOWN is returned only when
\* no layout has one.
C1_FirstLayoutWithMarker ==
    pc = "classified" =>
        /\ arg_doc_type \in Supported \cup {"UNKNOWN"}
        /\ \A k \in 1..Len(LayoutOrder) :
              arg_doc_type = LayoutOrder[k] =>
                  /\ HasMarker(arg_text, LayoutOrder[k])
                  /\ \A j \in 1..(k - 1) : ~HasMarker(arg_text, LayoutOrder[j])
        /\ arg_doc_type = "UNKNOWN" => \A l \in Supported : ~HasMarker(arg_text, l)

\* C1 witness: a text holding a notification marker on its first line and a
\* stay-permit marker on its second is classified ITAS, the earlier layout.
C1_Witness ==
    /\ pc = "classified"
    /\ arg_doc_type = "ITAS"
    /\ HasMarker(arg_text, "NOTIFIKASI")
    /\ LitAt("NOTIFIKASI", arg_text, 1, TRUE)

\* C2: a text that is one marker phrase alone, in any letter case, is classified
\* as the layout listing that phrase (both visit-permit phrases as ITK), and a
\* text with no marker phrase is classified UNKNOWN.
C2_MarkerAloneGivesItsLayout ==
    pc = "classified" =>
        /\ \A l \in Supported : \A phrase \in MarkersOf(l) :
              StrUpper(arg_text) = phrase => arg_doc_type = l
        /\ (\A l \in Supported : ~HasMarker(arg_text, l)) => arg_doc_type = "UNKNOWN"

(***************************************************************************)
(* Dispatch: classification if the hint is "auto", then extraction         *)
(***************************************************************************)
Init ==
    /\ arg_text \in DocTexts
    /\ arg_doc_type \in Hints \cup {"auto"}
    /\ ret_data = None /\ ret_filename = None
    /\ arg_is_name_or_pob = FALSE
    /\ pc = "start"
    /\ Idle

Detect ==
    /\ pc = "start" /\ arg_doc_type = "auto"
    /\ arg_doc_type' = detect_document_type(arg_text)
    /\ pc' = "detected"
    /\ UNCHANGED <<arg_is_name_or_pob, arg_text, ret_data, ret_filename, handlerVars>>

Extract ==
    /\ pc = "detected" \/ (pc = "start" /\ arg_doc_type # "auto")
    /\ ret_data' = extract_data_by_type(arg_text, arg_doc_type)
    /\ pc' = "done"
    /\ UNCHANGED <<arg_is_name_or_pob, arg_text, arg_doc_type, ret_filename, handlerVars>>

Next == Detect \/ Extract

Spec == Init /\ [][Next]_vars

\* C8: extract_data_by_type returns a document record only for the six
\* supported kinds; for UNKNOWN and every other kind string it returns a record
\* whose only entry is "error", and that entry names the kind it was given.
C8_UnknownKindGivesErrorRecord ==
    pc = "done" =>
        IF arg_doc_type \in Supported
        THEN "error" \notin DOMAIN ret_data /\ ret_data["Jenis Dokumen"] = arg_doc_type
        ELSE /\ DOMAIN ret_data = {"error"}
             /\ Find(ret_data["error"], arg_doc_type) > 0

\* C8 witness: a text without any marker was classified UNKNOWN and the
\* dispatcher answered with the error record.
C8_Witness ==
    /\ pc = "done"
    /\ arg_doc_type = "UNKNOWN"
    /\ \A l \in Supported : ~HasMarker(arg_text, l)
    /\ arg_text # ""
    /\ "error" \in DOMAIN ret_data

\* the date fields of the records
DateFields == {"Date of Birth", "Passport Expiry", "Stay Permit Expiry", "Date Issue"}

\* two digits, "/", two digits, "/", four digits
IsDDMMYYYY(s) ==
    /\ Len(s) = 10
    /\ \A i \in {1, 2, 4, 5, 7, 8, 9, 10} : Ch(s, i) \in DigitSet
    /\ Ch(s, 3) = "/" /\ Ch(s, 6) = "/"

\* C10: in a record of any of the six extractors every date field that is
\* present (neither None nor "") has the shape DD/MM/YYYY.
C10_DateFieldsNormalized ==
    pc = "done" /\ arg_doc_type \in Supported =>
        \A f \in DateFields \cap DOMAIN ret_data :
            Truthy(ret_data[f]) => IsDDMMYYYY(ret_data[f])

(***************************************************************************)
(* Filename synthesis: generate_new_filename applied to a record           *)
(***************************************************************************)
MaxExtra == 2

\* n characters, a space at every tenth position
Padded(n) == ConcatAll([i \in 1..n |-> IF i % 10 = 0 THEN " " ELSE "K"])

\* marks a key the record does not have
Absent == "<absent>"

NameChoices ==
    {Absent, None, "", "Ana-Maria\nO'Neil #2"} \cup
    {Padded(n) : n \in (MaxPartLen - 1)..(MaxPartLen + MaxExtra)}

NumberKeys == <<"Passport Number", "Passport No", "Nomor Paspor", "KITAS/KITAP">>
NumberValue(k) == <<"A1", "B2", "C3", "D-4/5">>[k]
NumberChoices(k) == {Absent, "", NumberValue(k)}

\* the record with the given entries, the Absent ones left out
RecordOf(entries) == [k \in {k \in DOMAIN entries : entries[k] # Absent} |-> entries[k]]

FilenameRecords ==
    {RecordOf(("Name" :> n) @@ ("Nama TKA" :> t) @@ ("Passport Number" :> a) @@
              ("Passport No" :> b) @@ ("Nomor Paspor" :> c) @@ ("KITAS/KITAP" :> d))
        : n \in NameChoices, t \in {Absent, "BUDI S."},
          a \in NumberChoices(1), b \in NumberChoices(2),
          c \in NumberChoices(3), d \in NumberChoices(4)}

batchVars == <<files, document_type, idx, all_results, extracted_data_list, renamed_files,
               temp_dir, archive, response>>

InitFilename ==
    /\ ret_data \in FilenameRecords
    /\ use_name \in BOOLEAN /\ use_passport \in BOOLEAN
    /\ arg_text = "" /\ arg_doc_type = "auto" /\ ret_filename = None
    /\ arg_is_name_or_pob = FALSE
    /\ pc = "start"
    /\ files = <<>> /\ document_type = "auto" /\ idx = 0 /\ all_results = <<>>
    /\ extracted_data_list = <<>> /\ renamed_files = <<>> /\ temp_dir = <<>>
    /\ archive = None /\ response = None

GenerateName ==
    /\ pc = "start"
    /\ ret_filename' = generate_new_filename(ret_data, use_name, use_passport)
    /\ pc' = "named"
    /\ UNCHANGED <<arg_is_name_or_pob, arg_text, arg_doc_type, ret_data, use_name, use_passport, batchVars>>

NextFilename == GenerateName

SpecFilename == InitFilename /\ [][NextFilename]_vars

\* the value of the first key of keys, in order, that the record has non-empty
RECURSIVE FirstNonEmpty(_, _)
FirstNonEmpty(record, keys) ==
    IF Len(keys) = 0 THEN ""
    ELSE IF Truthy(Get(record, Head(keys))) THEN Get(record, Head(keys))
    ELSE FirstNonEmpty(record, Tail(keys))

\* the name part and the number part (each "" if left out) joined and suffixed
Assemble(name, number) ==
    (IF name # "" /\ number # "" THEN name \o " " \o number
     ELSE IF name # "" THEN name
     ELSE IF number # "" THEN number
     ELSE "RENAMED") \o ".pdf"

\* the filename expected when the number is looked up under keys, in order
FilenameBy(keys) ==
    Assemble(IF use_name
             THEN sanitize_filename_part(FirstNonEmpty(ret_data, <<"Name", "Nama TKA">>)) ELSE "",
             IF use_passport THEN sanitize_filename_part(FirstNonEmpty(ret_data, keys)) ELSE "")

\* C6, as amended: the number comes from the first non-empty field in the order
\* "Passport Number", "Nomor Paspor", "Passport No", "KITAS/KITAP".
C6_NumberPriority ==
    pc = "named" =>
        ret_filename = FilenameBy(<<"Passport Number", "Nomor Paspor", "Passport No", "KITAS/KITAP">>)

\* C6 witness: "Passport Number" is empty, "Passport No" and "Nomor Paspor" are
\* both non-empty, and the number in the filename is the one of "Nomor Paspor".
C6_Witness ==
    /\ pc = "named" /\ use_passport /\ ~use_name
    /\ ~Truthy(Get(ret_data, "Passport Number"))
    /\ Truthy(Get(ret_data, "Passport No")) /\ Truthy(Get(ret_data, "Nomor Paspor"))
    /\ ret_filename = ret_data["Nomor Paspor"] \o ".pdf"

\* C6, as stated: the number comes from the first non-empty field in the order
\* "Passport Number", "Passport No", "Nomor Paspor", "KITAS/KITAP".
C6_NumberPriorityAsStated ==
    pc = "named" =>
        ret_filename = FilenameBy(<<"Passport Number", "Passport No", "Nomor Paspor", "KITAS/KITAP">>)

\* characters sanitize_filename_part lets through
Allowed(s) == \A i \in 1..Len(s) : Ch(s, i) \in WordSet \cup SpaceSet \cup {"-"}

\* C7: the filename is the sanitized name and the sanitized number, each taken
\* only if its flag is set and it is non-empty, each of at most 30 allowed
\* characters, joined by one space and suffixed ".pdf"; with no part it is
\* exactly "RENAMED.pdf".
C7_FilenameShape ==
    pc = "named" =>
        LET name == IF use_name THEN sanitize_filename_part(name_raw(ret_data)) ELSE ""
            number == IF use_passport THEN sanitize_filename_part(passport_raw(ret_data)) ELSE ""
        IN /\ Len(name) <= 30 /\ Len(number) <= 30
           /\ Allowed(name) /\ Allowed(number)
           /\ name # "" /\ number # "" => ret_filename = name \o " " \o number \o ".pdf"
           /\ name # "" /\ number = "" => ret_filename = name \o ".pdf"
           /\ name = "" /\ number # "" => ret_filename = number \o ".pdf"
           /\ name = "" /\ number = "" => ret_filename = "RENAMED.pdf"

\* C7 witness: both flags set, a name longer than 30 characters and a number
\* with a character to remove give a cut name, a space and the cleaned number.
C7_Witness ==
    /\ pc = "named" /\ use_name /\ use_passport
    /\ Len(name_raw(ret_data)) > 30
    /\ passport_raw(ret_data) = "D-4/5"
    /\ ret_filename = Strip(SubSeq(name_raw(ret_data), 1, 30)) \o " D-45.pdf"

(***************************************************************************)
(* Batch endpoints: uploads                                                *)
(*                                                                         *)
(* An upload has a filename and a content; pdfplumber either opens the     *)
(* content (opens) and yields the text of each page (None for a page       *)
(* without text), or raises open_error.  str() of an HTTPException is      *)
(* "<status>: <detail>".                                                   *)
(***************************************************************************)
Upload(filename, content, opens, pages) ==
    [filename |-> filename, content |-> content, opens |-> opens, pages |-> pages,
     open_error |-> "No /Root object! - Is this really a PDF?"]

Uploads ==
    {Upload("a.pdf", "pdf-a", TRUE, <<"STAY PERMIT\nPassport Number : X1">>),
     Upload("b.PDF", "pdf-b", TRUE, <<None, "notifikasi", "Nomor Paspor : X1">>),
     Upload("c.pdf", "pdf-c", TRUE, <<"LAMPIRAN\nNama TKA : BUDI">>),
     Upload("d.pdf", "pdf-d", TRUE, <<None, " ">>),
     Upload("e.pdf", "pdf-e", FALSE, <<>>),
     Upload("notes.txt", "txt-f", TRUE, <<"STAY PERMIT">>)}

MaxFiles == 3

Batches == SeqsUpTo(Uploads, MaxFiles)

\* file.filename.lower().endswith('.pdf')
IsPdfName(filename) == EndsWith(StrLower(filename), ".pdf")

\* the page loop: text += page_text + "\n" for every page with text
RECURSIVE pdf_text(_)
pdf_text(pages) ==
    IF Len(pages) = 0 THEN ""
    ELSE (IF Truthy(Head(pages)) THEN Head(pages) \o "\n" ELSE "") \o pdf_text(Tail(pages))

\* str(HTTPException(status_code=400, detail=detail))
HttpError(detail) == "400: " \o detail

\* the handler's outer except: the error response for an HTTPException raised at line
ErrorResponse(detail, line) ==
    [status |-> "error", error |-> HttpError(detail), traceback |-> line]

(***************************************************************************)
(* /extract-bulk                                                           *)
(***************************************************************************)
\* the body of the file loop with its except branch left out: a file that
\* raises leaves all_results as it was
bulk_loop_body_silent_except(results, file, doc_type) ==
    IF ~IsPdfName(file.filename)
    THEN Append(results, [filename |-> file.filename, status |-> "error",
                          error |-> "File must be a PDF"])
    ELSE IF ~file.opens THEN results
    ELSE IF Strip(pdf_text(file.pages)) = ""
    THEN Append(results, [filename |-> file.filename, status |-> "error",
                          error |-> "No text found in PDF"])
    ELSE Only({Append(results,
                   [filename |-> file.filename, status |-> "success",
                    document_type |-> StrUpper(current_doc_type),
                    extracted_data |->
                        ("Original_Filename" :> file.filename) @@
                        extract_data_by_type(pdf_text(file.pages), StrUpper(current_doc_type))])
               : current_doc_type \in {IF StrLower(doc_type) = "auto"
                                       THEN detect_document_type(pdf_text(file.pages))
                                       ELSE doc_type}})

\* the body of the file loop: all_results after one more file
bulk_loop_body(results, file, doc_type) ==
    IF ~IsPdfName(file.filename)
    THEN Append(results, [filename |-> file.filename, status |-> "error",
                          error |-> "File must be a PDF"])
    ELSE IF ~file.opens
    THEN Append(results, [filename |-> file.filename, status |-> "error",
                          error |-> file.open_error])
    ELSE IF Strip(pdf_text(file.pages)) = ""
    THEN Append(results, [filename |-> file.filename, status |-> "error",
                          error |-> "No text found in PDF"])
    ELSE Only({Append(results,
                   [filename |-> file.filename, status |-> "success",
                    document_type |-> StrUpper(current_doc_type),
                    extracted_data |->
                        ("Original_Filename" :> file.filename) @@
                        extract_data_by_type(pdf_text(file.pages), StrUpper(current_doc_type))])
               : current_doc_type \in {IF StrLower(doc_type) = "auto"
                                       THEN detect_document_type(pdf_text(file.pages))
                                       ELSE doc_type}})

BulkHints == {"auto", "Itas"}

callVars == <<arg_text, arg_doc_type, arg_is_name_or_pob, ret_data, ret_filename>>

InitBulk ==
    /\ files \in Batches
    /\ document_type \in BulkHints
    /\ use_name = TRUE /\ use_passport = TRUE
    /\ idx = 0 /\ all_results = <<>> /\ extracted_data_list = <<>> /\ renamed_files = <<>>
    /\ temp_dir = <<>> /\ archive = None /\ response = None
    /\ pc = "start"
    /\ arg_text = "" /\ arg_doc_type = "auto" /\ ret_data = None /\ ret_filename = None
    /\ arg_is_name_or_pob = FALSE

\* an empty file list, were it let past the first check
BulkReject_unchecked ==
    /\ pc = "start" /\ files = <<>>
    /\ response' = ErrorResponse("No successful extractions found", 572)
    /\ pc' = "done"
    /\ UNCHANGED <<callVars, files, document_type, use_name, use_passport, idx, all_results,
                   extracted_data_list, renamed_files, temp_dir, archive>>

\* if not files: raise HTTPException(400, "No files provided")
BulkReject ==
    /\ pc = "start" /\ files = <<>>
    /\ response' = ErrorResponse("No files provided", 508)
    /\ pc' = "done"
    /\ UNCHANGED <<callVars, files, document_type, use_name, use_passport, idx, all_results,
                   extracted_data_list, renamed_files, temp_dir, archive>>

\* one iteration of "for file in files"
BulkStep ==
    /\ pc \in {"start", "loop"} /\ idx < Len(files)
    /\ all_results' = bulk_loop_body(all_results, files[idx + 1], document_type)
    /\ idx' = idx + 1
    /\ pc' = "loop"
    /\ UNCHANGED <<callVars, files, document_type, use_name, use_passport,
                   extracted_data_list, renamed_files, temp_dir, archive, response>>

\* after the loop: the Excel export of the successful entries, or the error
BulkFinish ==
    /\ pc = "loop" /\ idx = Len(files)
    /\ LET successful_extractions == SelectSeq(all_results, LAMBDA r : r.status = "success")
           excel_data == [i \in 1..Len(successful_extractions) |->
                              successful_extractions[i].extracted_data]
       IN IF Len(successful_extractions) = 0
          THEN /\ response' = ErrorResponse("No successful extractions found", 572)
               /\ archive' = None
          ELSE /\ archive' = excel_data
               /\ response' =
                    [media_type |->
                        "application/vnd.openxmlformats-officedocument.spreadsheetml.sheet"]
    /\ pc' = "done"
    /\ UNCHANGED <<callVars, files, document_type, use_name, use_passport, idx, all_results,
                   extracted_data_list, renamed_files, temp_dir>>

NextBulk == BulkReject \/ BulkStep \/ BulkFinish

SpecBulk == InitBulk /\ [][NextBulk]_vars

\* an upload the loop cannot extract from: no PDF name, unreadable, or no text
Fails(file) ==
    \/ \A n \in {".pdf", ".PDF", ".Pdf"} : ~EndsWith(file.filename, n)
    \/ ~file.opens
    \/ \A i \in 1..Len(file.pages) :
          file.pages[i] = None \/ \A j \in 1..Len(file.pages[i]) : Ch(file.pages[i], j) \in SpaceSet

\* the entry of a batch made of this one upload
AloneEntry(file, doc_type) == bulk_loop_body(<<>>, file, doc_type)[1]

\* C3: after n files all_results has n entries, the i-th one is the entry of the
\* i-th file; a file that is no PDF, has no text or raises has one error entry at
\* its position; every entry is the one its file gets in a batch of its own.
C3_OneEntryPerFileInOrder ==
    /\ Len(all_results) = idx
    /\ \A i \in 1..Len(all_results) :
          /\ all_results[i].filename = files[i].filename
          /\ all_results[i].status = (IF Fails(files[i]) THEN "error" ELSE "success")
          /\ Fails(files[i]) => DOMAIN all_results[i] = {"filename", "status", "error"}
          /\ all_results[i] = AloneEntry(files[i], document_type)

\* C3 witness: three files consumed, the second one raised and has its error
\* entry, the first and the third have their success entries.
C3_Witness ==
    /\ idx = 3 /\ Len(all_results) = 3
    /\ ~files[2].opens /\ IsPdfName(files[2].filename)
    /\ all_results[2].status = "error" /\ all_results[2].error = files[2].open_error
    /\ all_results[1].status = "success" /\ all_results[3].status = "success"
    /\ all_results[1].filename = "a.pdf" /\ all_results[3].filename = "c.pdf"

\* C9: the handler ends with the error "No files provided" exactly for an empty
\* file list and with the error "No successful extractions found" exactly for a
\* non-empty list in which every file fails; neither case leaves an export.
C9_EmptyAndAllFailedDiffer ==
    pc = "done" =>
        LET allFail == files # <<>> /\ \A i \in 1..Len(files) : Fails(files[i])
            IsError(detail) ==
                /\ DOMAIN response = {"status", "error", "traceback"}
                /\ response.status = "error"
                /\ Find(response.error, detail) > 0
        IN /\ files = <<>> <=> IsError("No files provided")
           /\ allFail <=> IsError("No successful extractions found")
           /\ files = <<>> \/ allFail => archive = None

\* C9 witness: a batch of two failing files ended with the zero-success error
\* and without export.
C9_Witness ==
    /\ pc = "done" /\ Len(files) = 2
    /\ Fails(files[1]) /\ Fails(files[2])
    /\ response = ErrorResponse("No successful extractions found", 572)
    /\ archive = None

(***************************************************************************)
(* /extract-and-rename                                                     *)
(***************************************************************************)
\* the body of the file loop: the collected records, the written paths and the
\* temporary directory after one more file; every failure is a bare "continue"
rename_loop_body(st, file, doc_type, useName, usePassport) ==
    IF ~IsPdfName(file.filename) THEN st
    ELSE IF ~file.opens THEN st
    ELSE IF Strip(pdf_text(file.pages)) = "" THEN st
    ELSE Only({[extracted_data_list |->
                    Append(st.extracted_data_list,
                           ("Original_Filename" :> file.filename) @@
                           ("New_Filename" :> new.filename) @@ new.data),
                renamed_files |-> Append(st.renamed_files, new.filename),
                temp_dir |-> (new.filename :> file.content) @@ st.temp_dir]
               : new \in {Only({[data |-> extracted_data,
                                 filename |-> generate_new_filename(extracted_data,
                                                                    useName, usePassport)]
                                : extracted_data \in
                                    {extract_data_by_type(
                                        pdf_text(file.pages),
                                        StrUpper(IF StrLower(doc_type) = "auto"
                                                 THEN detect_document_type(pdf_text(file.pages))
                                                 ELSE doc_type))}})}})

InitRename ==
    /\ files \in Batches
    /\ document_type \in BulkHints
    /\ use_name \in BOOLEAN /\ use_passport \in BOOLEAN
    /\ idx = 0 /\ all_results = <<>> /\ extracted_data_list = <<>> /\ renamed_files = <<>>
    /\ temp_dir = <<>> /\ archive = None /\ response = None
    /\ pc = "start"
    /\ arg_text = "" /\ arg_doc_type = "auto" /\ ret_data = None /\ ret_filename = None
    /\ arg_is_name_or_pob = FALSE

\* if not files: raise HTTPException(400, "No files provided")
RenameReject ==
    /\ pc = "start" /\ files = <<>>
    /\ response' = ErrorResponse("No files provided", 615)
    /\ pc' = "done"
    /\ UNCHANGED <<callVars, files, document_type, use_name, use_passport, idx, all_results,
                   extracted_data_list, renamed_files, temp_dir, archive>>

\* one iteration of "for file in files"
RenameStep ==
    /\ pc \in {"start", "loop"} /\ idx < Len(files)
    /\ \E st \in {rename_loop_body([extracted_data_list |-> extracted_data_list,
                                     renamed_files |-> renamed_files, temp_dir |-> temp_dir],
                                    files[idx + 1], document_type, use_name, use_passport)} :
          /\ extracted_data_list' = st.extracted_data_list
          /\ renamed_files' = st.renamed_files
          /\ temp_dir' = st.temp_dir
    /\ idx' = idx + 1
    /\ pc' = "loop"
    /\ UNCHANGED <<callVars, files, document_type, use_name, use_passport, all_results,
                   archive, response>>

\* after the loop: the Excel file and the ZIP of the written files, or the error;
\* leaving the "with" block removes the temporary directory
RenameFinish ==
    /\ pc = "loop" /\ idx = Len(files)
    /\ IF Len(extracted_data_list) = 0
       THEN /\ response' = ErrorResponse("No files could be processed", 673)
            /\ archive' = None
       ELSE /\ archive' =
                 [i \in 1..Len(renamed_files) |->
                      [name |-> renamed_files[i], content |-> temp_dir[renamed_files[i]]]] \o
                 <<[name |-> "extracted_data.xlsx", content |-> extracted_data_list]>>
            /\ response' = [media_type |-> "application/zip"]
    /\ temp_dir' = <<>>
    /\ pc' = "done"
    /\ UNCHANGED <<callVars, files, document_type, use_name, use_passport, idx, all_results,
                   extracted_data_list, renamed_files>>

NextRename == RenameReject \/ RenameStep \/ RenameFinish

SpecRename == InitRename /\ [][NextRename]_vars

\* C4: every input file has its entry in the collected result: once the loop
\* has consumed n files, n entries are collected.
C4_OneEntryPerInput ==
    pc \in {"loop", "done"} => Len(extracted_data_list) = idx

\* C5: no written file replaces another document's file, and the archive has
\* one entry of its own name, holding the document's own content, for every
\* document that was processed.
C5_NoOverwriteDistinctEntries ==
    /\ pc = "loop" =>
          \A i \in 1..idx :
              ~Fails(files[i]) => \E n \in DOMAIN temp_dir : temp_dir[n] = files[i].content
    /\ pc = "done" /\ archive # None =>
          /\ \A j, k \in 1..Len(archive) : j # k => archive[j].name # archive[k].name
          /\ \A i \in 1..Len(files) :
                ~Fails(files[i]) => \E k \in 1..Len(archive) : archive[k].content = files[i].content

(***************************************************************************)
(* Date normalization: format_date applied to a string                     *)
(*                                                                         *)
(* Every call of format_date in the source passes a string (a regex group  *)
(* or a piece of a split), so the inputs are strings, "" included.         *)
(***************************************************************************)
MaxPad == 1

\* k copies of the digit 1
Ones(k) == ConcatAll([i \in 1..k |-> "1"])

DatePrefixes == {"", "x "} \cup {Ones(k) : k \in 1..MaxPad}

\* day, separator, month, separator, year, with what stands before and after
DateInputs ==
    {p \o d \o s1 \o m \o s2 \o y \o q
        : p \in DatePrefixes, d \in {"05", "5", "31"}, s1 \in {"-", "/", "."},
          m \in {"03", "3"}, s2 \in {"-", "/", "."}, y \in {"2024", "24", "20245"},
          q \in {"", " y"}}
    \cup {"", "not a date", "2024-03-05"}

InitDate ==
    /\ arg_text \in DateInputs
    /\ arg_doc_type = "auto" /\ ret_data = None /\ ret_filename = None
    /\ arg_is_name_or_pob = FALSE
    /\ pc = "start"
    /\ Idle

FormatDate ==
    /\ pc = "start"
    /\ ret_data' = format_date(arg_text)
    /\ pc' = "formatted"
    /\ UNCHANGED <<arg_is_name_or_pob, arg_text, arg_doc_type, ret_filename, handlerVars>>

NextDate == FormatDate

SpecDate == InitDate /\ [][NextDate]_vars

\* two digits, "-" or "/", two digits, "-" or "/", four digits start at position i of s
DateAt(s, i) ==
    /\ i >= 1 /\ i + 9 <= Len(s)
    /\ \A j \in {0, 1, 3, 4, 6, 7, 8, 9} : Ch(s, i + j) \in DigitSet
    /\ Ch(s, i + 2) \in {"-", "/"} /\ Ch(s, i + 5) \in {"-", "/"}

\* C11: an input of the form DD-MM-YYYY or DD/MM/YYYY comes back as DD/MM/YYYY
\* with the same digits, and an input in which the two-digit, two-digit,
\* four-digit pattern does not occur comes back unchanged.
C11_RewriteOrPassThrough ==
    pc = "formatted" =>
        /\ (Len(arg_text) = 10 /\ DateAt(arg_text, 1)) =>
              ret_data = SubSeq(arg_text, 1, 2) \o "/" \o SubSeq(arg_text, 4, 5) \o "/" \o
                         SubSeq(arg_text, 7, 10)
        /\ (\A i \in 1..Len(arg_text) : ~DateAt(arg_text, i)) => ret_data = arg_text

\* C11 witness: a date with a one-digit day and month does not have the
\* pattern and came back as it was.
C11_Witness ==
    /\ pc = "formatted"
    /\ arg_text = "5-3-2024"
    /\ \A i \in 1..Len(arg_text) : ~DateAt(arg_text, i)
    /\ ret_data = "5-3-2024"

(***************************************************************************)
(* Field cleaning: clean_text applied to a string                          *)
(***************************************************************************)
MaxPieces == 3

CleanPieces == {"Ala", "mat", "#", ".", " ", "John", "Alamat", "Jenis ", "Kelamin"}

CleanInputs == {ConcatAll(f) : f \in SeqsUpTo(CleanPieces, MaxPieces)}

InitClean ==
    /\ arg_text \in CleanInputs
    /\ arg_is_name_or_pob \in BOOLEAN
    /\ arg_doc_type = "auto" /\ ret_data = None /\ ret_filename = None
    /\ pc = "start"
    /\ Idle

CleanText ==
    /\ pc = "start"
    /\ ret_data' = clean_text(arg_text, arg_is_name_or_pob)
    /\ pc' = "cleaned"
    /\ UNCHANGED <<arg_is_name_or_pob, arg_text, arg_doc_type, ret_filename, handlerVars>>

NextClean == CleanText

SpecClean == InitClean /\ [][NextClean]_vars

\* C12: clean_text applied to its own result, with the same flag, gives that
\* result again.
C12_CleanTextIdempotent ==
    pc = "cleaned" => clean_text(ret_data, arg_is_name_or_pob) = ret_data

\* C13: on the same text extract_notifikasi and extract_dkptka give records with
\* the same field names and the same value in every field but "Jenis Dokumen",
\* which is "NOTIFIKASI" in the one and "DKPTKA" in the other.
C13_NotifikasiEqualsDkptkaButTag ==
    pc = "done" /\ arg_doc_type \in {"NOTIFIKASI", "DKPTKA"} =>
        LET n == extract_notifikasi(arg_text)
            d == extract_dkptka(arg_text)
        IN /\ ret_data = (IF arg_doc_type = "NOTIFIKASI" THEN n ELSE d)
           /\ DOMAIN n = DOMAIN d
           /\ \A f \in DOMAIN n \ {"Jenis Dokumen"} : n[f] = d[f]
           /\ n["Jenis Dokumen"] = "NOTIFIKASI" /\ d["Jenis Dokumen"] = "DKPTKA"

\* C13 witness: a text with a worker name and a prose issue date went through
\* extract_dkptka, and extract_notifikasi reads the same name and date from it.
C13_Witness ==
    /\ pc = "done" /\ arg_doc_type = "DKPTKA"
    /\ ret_data["Nama TKA"] = "BUDI" /\ ret_data["Date Issue"] = "04/03/2024"
    /\ extract_notifikasi(arg_text)["Nama TKA"] = "BUDI"
    /\ extract_notifikasi(arg_text)["Date Issue"] = "04/03/2024"

\* a text in which no field pattern of any extractor matches: marker lines only
OnlyMarkerLines(text) ==
    text \in {JoinLines(f) : f \in SeqsUpTo({"STAY PERMIT", "NOTIFIKASI"}, MaxLines)}

\* C14: the record of a recognized layout for a text in which no field pattern
\* matches has None in every field other than the layout tag.
C14_MissingFieldsAreNone ==
    pc = "done" /\ arg_doc_type \in Supported /\ OnlyMarkerLines(arg_text) =>
        \A f \in DOMAIN ret_data \ {"Jenis Dokumen"} : ret_data[f] = None

\* C15: every entry with status "success" holds a record whose "Jenis Dokumen"
\* is the entry's document_type, which is a supported layout, and so does every
\* row handed to the export.
C15_SuccessCarriesLayoutTag ==
    /\ \A i \in 1..Len(all_results) :
          all_results[i].status = "success" =>
              /\ all_results[i].document_type \in Supported
              /\ "Jenis Dokumen" \in DOMAIN all_results[i].extracted_data
              /\ all_results[i].extracted_data["Jenis Dokumen"] = all_results[i].document_type
    /\ pc = "done" /\ archive # None =>
          \A k \in 1..Len(archive) :
              /\ "Jenis Dokumen" \in DOMAIN archive[k]
              /\ archive[k]["Jenis Dokumen"] \in Supported

(***************************************************************************)
(* extract_evln applied to a letter: salutation, blank lines, name lines   *)
(***************************************************************************)
MaxLetterLines == 3

LetterLines == {"Dear Mr.,", "", "   ", "John Smith", "Bob", Ones(50)}

LetterTexts == {JoinLines(f) : f \in SeqsUpTo(LetterLines, MaxLetterLines)}

InitEvln ==
    /\ arg_text \in LetterTexts
    /\ arg_doc_type = "EVLN" /\ ret_data = None /\ ret_filename = None
    /\ arg_is_name_or_pob = FALSE
    /\ pc = "start"
    /\ Idle

ExtractEvln ==
    /\ pc = "start"
    /\ ret_data' = extract_evln(arg_text)
    /\ pc' = "extracted"
    /\ UNCHANGED <<arg_is_name_or_pob, arg_text, arg_doc_type, ret_filename, handlerVars>>

NextEvln == ExtractEvln

SpecEvln == InitEvln /\ [][NextEvln]_vars

\* C16: the name is the stripped next non-empty line after the first salutation
\* line, blank lines in between skipped, if it has 4 to 49 characters; a
\* candidate of another length is not stored as the name.
C16_NameFollowsSalutation ==
    pc = "extracted" =>
        LET lines == Split(arg_text, "\n")
            dear == {i \in 1..Len(lines) : lines[i] = "Dear Mr.,"}
            first == CHOOSE i \in dear : \A j \in dear : i <= j
            after == {j \in (first + 1)..Len(lines) : Strip(lines[j]) # ""}
            next == CHOOSE j \in after : \A k \in after : j <= k
        IN (dear # {} /\ after # {}) =>
              IF 4 <= Len(Strip(lines[next])) /\ Len(Strip(lines[next])) <= 49
              THEN ret_data["Name"] = Strip(lines[next])
              ELSE ret_data["Name"] # Strip(lines[next])

====
